---- MODULE Spec2Model ----
(***************************************************************************)
(* Model of src/main.py: FigmaConverter (class-name sanitizer, node-to-CSS *)
(* routine, recursive tree walker, asset loop of convert()) and main().    *)
(*                                                                         *)
(* Strings whose characters the code inspects (node names, node ids, class *)
(* names) are sequences of one-character strings.  Python dicts (the rule  *)
(* map, the image map, a CSS property set) are sequences of <<key, value>> *)
(* pairs in insertion order.                                               *)
(***************************************************************************)
EXTENDS Integers, Sequences, FiniteSets

VARIABLES
    pc,            \* position of the process: main() and the steps of convert()
    api_key,       \* main(): api_key local / FigmaConverter.api_key
    file_key,      \* main(): file_key local / FigmaConverter.file_key
    images,        \* FigmaConverter.images: dict node id -> class name
    fonts_used,    \* FigmaConverter.fonts_used: set of font families
    root_frame,    \* FigmaConverter.root_frame: None or a bounding box
    figma_data,    \* convert(): the fetched file (its document node)
    html_body,     \* convert(): html_body returned by traverse_node
    css_rules,     \* convert(): css_rules returned by traverse_node, patched by the asset loop
    image_urls,    \* convert(): image_urls returned by fetch_images
    loop_i,        \* convert(): position of the asset loop in images.items()
    requests,      \* every HTTP GET issued so far, in order
    files,         \* every file path written so far
    raised,        \* the exception that left convert()'s try block, "" if none
    exit_status,   \* the process exit status once main() has returned, -1 before
    printed,       \* the kinds of message printed so far
    trace,         \* history: what traverse_node did for each node it handled
    root_writes,   \* history: ids of the nodes whose call assigned root_frame
    attempts,      \* history: download_image calls, in order, with their outcome
    s_name,        \* sanitize_class_name harness: name argument
    s_id,          \* sanitize_class_name harness: node_id argument
    s_out          \* sanitize_class_name harness: returned value, <<"?">> before the call

vars == << pc, api_key, file_key, images, fonts_used, root_frame, figma_data,
           html_body, css_rules, image_urls, loop_i, requests, files, raised,
           exit_status, printed, trace, root_writes, attempts, s_name, s_id, s_out >>

----------------------------------------------------------------------------
(* Bounds of the model *)

MaxChildren == 2      \* children of a top-level frame
MaxCanvases == 2      \* CANVAS children of the DOCUMENT
MaxNameLen == 3       \* length of a name given to the sanitizer harness

(* Program constants *)

IdPrefixLen == 6          \* node_id[:6]
SmallHeight == 50         \* bounds.get('height', 0) < 50
SmallWidth == 400         \* bounds.get('width', 0) < 400

----------------------------------------------------------------------------
(* Characters *)

LowerLetters == {"a","b","c","d","e","f","g","h","i","j","k","l","m",
                 "n","o","p","q","r","s","t","u","v","w","x","y","z"}
UpperSeq == <<"A","B","C","D","E","F","G","H","I","J","K","L","M",
              "N","O","P","Q","R","S","T","U","V","W","X","Y","Z">>
LowerSeq == <<"a","b","c","d","e","f","g","h","i","j","k","l","m",
              "n","o","p","q","r","s","t","u","v","w","x","y","z">>
UpperLetters == {UpperSeq[i] : i \in 1..Len(UpperSeq)}
DigitSeq == <<"0","1","2","3","4","5","6","7","8","9">>
Digits == {DigitSeq[i] : i \in 1..Len(DigitSeq)}

\* the character class [a-zA-Z0-9_-] of both regular expressions
IdentChars == LowerLetters \cup UpperLetters \cup Digits \cup {"_", "-"}

\* str.lower() on one character (non-ASCII letters never reach it: they were replaced)
LowerChar(c) ==
    IF c \in UpperLetters
    THEN LowerSeq[CHOOSE i \in 1..Len(UpperSeq) : UpperSeq[i] = c]
    ELSE c

\* re.sub(r'[^a-zA-Z0-9_-]', '-', name)
SubNonIdent(s) == [i \in 1..Len(s) |-> IF s[i] \in IdentChars THEN s[i] ELSE "-"]

\* re.sub(r'-+', '-', name)
RECURSIVE CollapseDashes(_)
CollapseDashes(s) ==
    IF Len(s) <= 1 THEN s
    ELSE IF s[1] = "-" /\ s[2] = "-" THEN CollapseDashes(Tail(s))
    ELSE <<s[1]>> \o CollapseDashes(Tail(s))

\* name.lower()
LowerStr(s) == [i \in 1..Len(s) |-> LowerChar(s[i])]

\* name.strip('-')
RECURSIVE LStripDashes(_)
LStripDashes(s) ==
    IF s # <<>> /\ s[1] = "-" THEN LStripDashes(Tail(s)) ELSE s
RECURSIVE RStripDashes(_)
RStripDashes(s) ==
    IF s # <<>> /\ s[Len(s)] = "-" THEN RStripDashes(SubSeq(s, 1, Len(s) - 1)) ELSE s
StripDashes(s) == RStripDashes(LStripDashes(s))

\* re.sub(r'[^a-zA-Z0-9_-]', '', node_id[:6])
SanitizeId(node_id) ==
    LET IsIdent(c) == c \in IdentChars
        cut == SubSeq(node_id, 1, IF Len(node_id) < IdPrefixLen THEN Len(node_id) ELSE IdPrefixLen)
    IN  SelectSeq(cut, IsIdent)

Unnamed == <<"u","n","n","a","m","e","d">>

\* FigmaConverter.sanitize_class_name
sanitize_class_name(name, node_id) ==
    LET n1 == IF name = <<>> THEN Unnamed ELSE name
        n2 == SubNonIdent(n1)
        n3 == CollapseDashes(n2)
        n4 == StripDashes(LowerStr(n3))
        n5 == IF n4 # <<>> /\ n4[1] \notin LowerLetters THEN <<"n", "-">> \o n4 ELSE n4
        n6 == IF node_id # <<>> THEN n5 \o <<"-">> \o SanitizeId(node_id) ELSE n5
    IN  IF n6 # <<>> THEN n6 ELSE Unnamed

----------------------------------------------------------------------------
(* Python dicts: sequences of <<key, value>> in insertion order *)

DictKeys(d) == {d[i][1] : i \in 1..Len(d)}
DictHas(d, k) == \E i \in 1..Len(d) : d[i][1] = k
DictGet(d, k) == d[CHOOSE i \in 1..Len(d) : d[i][1] = k][2]
\* d[k] = v : an existing key keeps its position
DictSet(d, k, v) ==
    IF DictHas(d, k)
    THEN [i \in 1..Len(d) |-> IF d[i][1] = k THEN <<k, v>> ELSE d[i]]
    ELSE Append(d, <<k, v>>)
\* d.update(e)
RECURSIVE DictUpdate(_, _)
DictUpdate(d, e) ==
    IF e = <<>> THEN d
    ELSE DictUpdate(DictSet(d, e[1][1], e[1][2]), Tail(e))

\* a CSS property set is a dict from property name to value
CssSet(css, k, v) == DictSet(css, k, v)
CssHas(css, k) == DictHas(css, k)
CssGet(css, k) == DictGet(css, k)
\* del css[k]
CssDel(css, k) ==
    LET Keeps(e) == e[1] # k
    IN  SelectSeq(css, Keeps)
EmptyCss == <<>>

----------------------------------------------------------------------------
(* Scene nodes.  A node is a record; a key the JSON may omit is modelled by  *)
(* an "absent" value: bounds.has = FALSE (no absoluteBoundingBox),            *)
(* layoutMode = "" (no layoutMode), fontFamily = "" (no style.fontFamily),    *)
(* strokes / fills / children = <<>>.  Keys that no modelled document sets    *)
(* (rotation, cornerRadius, effects, opacity, clipsContent, paddings,        *)
(* itemSpacing, axis alignment) are left out of node_to_css.                  *)

EmptyBounds == [has |-> FALSE, x |-> 0, y |-> 0, width |-> 0, height |-> 0]
Bounds(x, y, w, h) == [has |-> TRUE, x |-> x, y |-> y, width |-> w, height |-> h]

Node(id, type, name, visible, bounds, layoutMode, strokes, fills, fontFamily, characters, children) ==
    [id |-> id, type |-> type, name |-> name, visible |-> visible, bounds |-> bounds,
     layoutMode |-> layoutMode, strokes |-> strokes, fills |-> fills,
     fontFamily |-> fontFamily, characters |-> characters, children |-> children]

ShapeTypes == {"RECTANGLE", "ELLIPSE", "FRAME", "GROUP", "COMPONENT", "INSTANCE"}

\* color_to_css, abstracted to the one colour the modelled paints carry
RgbaCss == "rgba(0, 0, 0, 1)"

\* FigmaConverter.get_fills
get_fills(node) ==
    IF node.fills = <<>> \/ ~node.fills[1].visible THEN "transparent"
    ELSE IF node.fills[1].type = "SOLID" THEN RgbaCss
    ELSE "transparent"

\* FigmaConverter.get_strokes: the stroke colour, "" for None
get_strokes(node) ==
    IF node.strokes = <<>> \/ ~node.strokes[1].visible THEN "" ELSE RgbaCss

\* the font-family entry of FigmaConverter.get_typography (lines 146-149)
get_typography(node) ==
    IF node.fontFamily # "" THEN CssSet(EmptyCss, "font-family", node.fontFamily) ELSE EmptyCss

\* self.fonts_used.add(font) of FigmaConverter.get_typography (line 148)
AddFont(fonts, node) ==
    IF node.fontFamily # "" THEN fonts \cup {node.fontFamily} ELSE fonts

\* self.root_frame: None, or the bounds dict assigned at line 207
NoneFrame == [none |-> TRUE, b |-> EmptyBounds]
FrameOf(bounds) == [none |-> FALSE, b |-> bounds]
\* truth value of self.root_frame (None and {} are false)
Truthy(rf) == ~rf.none /\ rf.b.has

\* the width / height entries both branches of node_to_css set
SizeCss(css, bounds) ==
    IF bounds.has
    THEN CssSet(CssSet(css, "width", bounds.width), "height", bounds.height)
    ELSE css

\* the border entry of node_to_css (lines 251-253)
BorderCss(css, node) ==
    IF get_strokes(node) # "" THEN CssSet(css, "border", "1px solid rgba(0, 0, 0, 1)") ELSE css

\* the background and border entries of node_to_css (lines 246-253)
PaintCss(css, node) ==
    BorderCss(IF node.type # "TEXT" /\ get_fills(node) # "transparent"
              THEN CssSet(css, "background", get_fills(node)) ELSE css, node)

\* the layout part of the non-root branch of node_to_css (lines 216-218)
LayoutCss(css, node) ==
    IF node.layoutMode # ""
    THEN CssSet(CssSet(css, "display", "flex"), "flex-direction",
                IF node.layoutMode = "HORIZONTAL" THEN "row" ELSE "column")
    ELSE css

\* position: absolute with left / top relative to the root frame (lines 210-214)
AbsoluteCss(css, node, rf) ==
    CssSet(CssSet(CssSet(css, "position", "absolute"),
                  "left", node.bounds.x - rf.b.x), "top", node.bounds.y - rf.b.y)

\* a mutant of PositionCss: the parent's layout flag is not consulted
PositionCssIgnoringParent(css, node, parent_has_layout, rf) ==
    IF Truthy(rf) /\ node.bounds.has THEN AbsoluteCss(css, node, rf) ELSE css

\* the absolute-position part of the non-root branch of node_to_css (lines 209-214)
PositionCss(css, node, parent_has_layout, rf) ==
    IF ~parent_has_layout /\ Truthy(rf) /\ node.bounds.has
    THEN AbsoluteCss(css, node, rf) ELSE css

\* FigmaConverter.node_to_css: the CSS it returns
node_to_css(node, is_root, parent_has_layout, rf) ==
    IF is_root
    THEN PaintCss(CssSet(CssSet(SizeCss(EmptyCss, node.bounds),
                                "position", "relative"), "margin", "0 auto"), node)
    ELSE PaintCss(SizeCss(LayoutCss(PositionCss(EmptyCss, node, parent_has_layout, rf),
                                    node), node.bounds), node)

\* FigmaConverter.node_to_css: self.root_frame = bounds (line 207)
RecordRoot(st, node, is_root) ==
    IF is_root
    THEN [st EXCEPT !.root_frame = FrameOf(node.bounds), !.root_writes = Append(@, node.id)]
    ELSE st

\* .replace('<', '&lt;').replace('>', '&gt;') and, for a TEXT node visited on its own,
\* .replace('\n', '<br>')
EscapeText(s, breaks) ==
    [i \in 1..Len(s) |-> IF s[i] = "<" THEN "&lt;"
                         ELSE IF s[i] = ">" THEN "&gt;"
                         ELSE IF breaks /\ s[i] = "\n" THEN "<br>"
                         ELSE s[i]]

\* one element of the HTML fragment: <tag class="class">text children</tag>
Element(tag, class, text, children) ==
    [tag |-> tag, class |-> class, text |-> text, children |-> children]

\* what traverse_node returns, with the converter's fields it leaves behind
Result(html, rules, st) == [html |-> html, css |-> rules, st |-> st]

\* one entry of the history of the traversal: the node, the rule stored for it, the
\* arguments of the call and the root frame it read
TraceEntry(node, kind, class, css, is_root, parent_has_layout, rf) ==
    [node |-> node.id, type |-> node.type, kind |-> kind, class |-> class, css |-> css,
     is_root |-> is_root, parent_has_layout |-> parent_has_layout, root |-> rf,
     bounds |-> node.bounds]
Log(st, entry) == [st EXCEPT !.trace = Append(@, entry)]

\* the colour entry taken from the first fill of a text node (lines 293-297)
TextColorCss(css, node) ==
    IF node.fills # <<>> /\ node.fills[1].visible THEN CssSet(css, "color", RgbaCss) ELSE css

\* a mutant of register_vector: a VECTOR is registered only when it has a visible fill
register_vector_if_filled(imgs, node, class_name) ==
    IF \E i \in 1..Len(node.fills) : node.fills[i].visible
    THEN DictSet(imgs, node.id, class_name) ELSE imgs

\* self.images[node['id']] = class_name of the VECTOR branch (line 395)
register_vector(imgs, node, class_name) == DictSet(imgs, node.id, class_name)

\* any(f.get('type') == 'IMAGE' for f in fills if f.get('visible', True))
has_image(node) ==
    \E i \in 1..Len(node.fills) : node.fills[i].visible /\ node.fills[i].type = "IMAGE"

\* self.images[node['id']] = class_name of the shape branch (lines 318-319)
register_image(imgs, node, class_name) ==
    IF has_image(node) THEN DictSet(imgs, node.id, class_name) ELSE imgs

\* is_small_element (line 325)
is_small_element(node) ==
    /\ node.children = <<>>
    /\ (IF node.bounds.has THEN node.bounds.height ELSE 0) < SmallHeight
    /\ (IF node.bounds.has THEN node.bounds.width ELSE 0) < SmallWidth

\* has_text_child (line 331)
has_text_child(node) == \E i \in 1..Len(node.children) : node.children[i].type = "TEXT"

\* is_button (lines 334-335)
is_button(node) ==
    /\ has_text_child(node)
    /\ Len(node.children) = 1
    /\ node.children[1].type = "TEXT"
    /\ get_strokes(node) = ""

\* text_css of a text child rendered as a <span> (lines 344-352 and 370-378)
InlineCss(child) ==
    CssSet(TextColorCss(get_typography(child), child), "white-space", "nowrap")

InlineResult(child, text_class, text_css, st) ==
    Result(Element("span", text_class, EscapeText(child.characters, FALSE), <<>>),
           << <<text_class, text_css>> >>,
           Log([st EXCEPT !.fonts_used = AddFont(@, child)],
               TraceEntry(child, "inline", text_class, text_css, FALSE, FALSE, st.root_frame)))

\* a text child rendered as a <span> by its container (lines 342-358 and 369-382):
\* html is the one element
InlineText(child, st) ==
    InlineResult(child, sanitize_class_name(child.name, child.id), InlineCss(child), st)

\* children_html.append(span); css_rules[text_class] = text_css
AddInline(acc, t) ==
    Result(Append(acc.html, t.html), DictSet(acc.css, t.css[1][1], t.css[1][2]), t.st)

\* if child_html: parts.append(child_html); css_rules.update(child_css)
AddChild(acc, r) ==
    Result(acc.html \o r.html, DictUpdate(acc.css, r.css), r.st)

RECURSIVE traverse_node(_, _, _, _)
RECURSIVE TraverseChildren(_, _, _, _, _)
RECURSIVE TraverseDocument(_, _, _)

\* the loop over children of the general path (lines 366-387)
TraverseChildren(children, i, current_has_layout, stroke_color, acc) ==
    IF i > Len(children) THEN acc
    ELSE TraverseChildren(children, i + 1, current_has_layout, stroke_color,
            IF children[i].type = "TEXT" /\ stroke_color # ""
            THEN AddInline(acc, InlineText(children[i], acc.st))
            ELSE AddChild(acc, traverse_node(children[i], FALSE, current_has_layout, acc.st)))

\* the loop of the DOCUMENT branch (lines 408-413)
TraverseDocument(children, i, acc) ==
    IF i > Len(children) THEN acc
    ELSE TraverseDocument(children, i + 1,
                          AddChild(acc, traverse_node(children[i], FALSE, FALSE, acc.st)))

\* css of the TEXT branch (lines 290-304)
TextCss(node, is_root, parent_has_layout, rf) ==
    CssSet(CssSet(CssSet(
        TextColorCss(DictUpdate(node_to_css(node, is_root, parent_has_layout, rf),
                                get_typography(node)), node),
        "display", "block"), "white-space", "pre-wrap"), "word-wrap", "break-word")

\* if 'background' in css and css['background'] == css.get('color'): del css['background']
DropSelfColoured(css) ==
    IF CssHas(css, "background") /\ CssHas(css, "color")
       /\ CssGet(css, "background") = CssGet(css, "color")
    THEN CssDel(css, "background") ELSE css

\* a mutant of Emit: the markup is produced and the rule is not stored
EmitWithoutRule(node, class_name, text, css, st, entry) ==
    Result(<< Element("div", class_name, text, <<>>) >>, <<>>,
           Log(st, [entry EXCEPT !.css = css]))

\* html_parts.append('<div class=...>'); css_rules[class_name] = css, for a node without
\* markup of children
Emit(node, class_name, text, css, st, entry) ==
    Result(<< Element("div", class_name, text, <<>>) >>, << <<class_name, css>> >>,
           Log(st, [entry EXCEPT !.css = css]))

\* the TEXT branch (lines 288-307)
TraverseText(node, class_name, st, entry) ==
    Emit(node, class_name, EscapeText(node.characters, TRUE),
         DropSelfColoured(TextCss(node, entry.is_root, entry.parent_has_layout, st.root_frame)),
         [RecordRoot(st, node, entry.is_root) EXCEPT !.fonts_used = AddFont(@, node)],
         entry)

\* css of the shape / container branch before the paths split (lines 310-321)
ShapeCss(css, node) ==
    LET c1 == IF node.type = "ELLIPSE" THEN CssSet(css, "border-radius", "50%") ELSE css
    IN  IF has_image(node)
        THEN CssSet(CssSet(c1, "background-size", "cover"), "background-position", "center")
        ELSE c1

\* css of the button path (lines 338-340)
ButtonCss(css) ==
    CssSet(CssSet(CssSet(css, "display", "flex"), "align-items", "center"),
           "justify-content", "center")

\* css of the general path (lines 360-364)
ContainerCss(css, node) ==
    IF has_text_child(node) /\ get_strokes(node) # ""
    THEN CssSet(CssSet(CssSet(CssSet(css, "display", "flex"), "align-items", "center"),
                       "padding-left", "16px"), "padding-right", "16px")
    ELSE css

\* the end of the button path (lines 355-358)
EmitButton(class_name, css, t, entry) ==
    Result(<< Element("div", class_name, <<>>, <<t.html>>) >>,
           DictSet(<< <<class_name, css>> >>, t.css[1][1], t.css[1][2]),
           Log(t.st, [entry EXCEPT !.css = css]))

\* the end of the general path (lines 389-391)
EmitContainer(class_name, css, r, entry) ==
    Result(<< Element("div", class_name, <<>>, r.html) >>,
           DictSet(r.css, class_name, css),
           Log(r.st, [entry EXCEPT !.css = css]))

\* the paths of the shape / container branch (lines 323-391)
ShapePaths(node, class_name, css, st, entry) ==
    IF is_small_element(node)
    THEN Emit(node, class_name, <<>>, css, st, entry)
    ELSE IF is_button(node)
    THEN EmitButton(class_name, ButtonCss(css), InlineText(node.children[1], st), entry)
    ELSE EmitContainer(class_name, ContainerCss(css, node),
                       TraverseChildren(node.children, 1, node.layoutMode # "",
                                        get_strokes(node), Result(<<>>, <<>>, st)),
                       entry)

\* the shape / container branch (lines 309-391)
TraverseShape(node, class_name, st, entry) ==
    ShapePaths(node, class_name,
               ShapeCss(node_to_css(node, entry.is_root, entry.parent_has_layout, st.root_frame),
                        node),
               [RecordRoot(st, node, entry.is_root)
                    EXCEPT !.images = register_image(@, node, class_name)],
               entry)

\* css of the VECTOR branch (lines 394-398)
VectorCss(css) ==
    CssSet(CssSet(CssSet(css, "background-size", "contain"),
                  "background-repeat", "no-repeat"), "background-position", "center")

\* the VECTOR branch (lines 393-401)
TraverseVector(node, class_name, st, entry) ==
    Emit(node, class_name, <<>>,
         VectorCss(node_to_css(node, entry.is_root, entry.parent_has_layout, st.root_frame)),
         [RecordRoot(st, node, entry.is_root)
              EXCEPT !.images = register_vector(@, node, class_name)],
         entry)

\* the CANVAS branch (lines 403-406): the index of the first visible FRAME child, 0 if none
FirstFrame(node) ==
    LET frames == {i \in 1..Len(node.children) :
                      node.children[i].type = "FRAME" /\ node.children[i].visible}
    IN  IF frames = {} THEN 0 ELSE CHOOSE i \in frames : \A j \in frames : i <= j

\* node.get('visible', True) of line 280
is_visible(node) == node.visible

\* FigmaConverter.traverse_node
traverse_node(node, is_root, parent_has_layout, st) ==
    IF ~is_visible(node) THEN Result(<<>>, <<>>, st)
    ELSE IF node.type = "TEXT"
    THEN TraverseText(node, sanitize_class_name(node.name, node.id), st,
                      TraceEntry(node, "visit", sanitize_class_name(node.name, node.id), <<>>,
                                 is_root, parent_has_layout, st.root_frame))
    ELSE IF node.type \in ShapeTypes
    THEN TraverseShape(node, sanitize_class_name(node.name, node.id), st,
                       TraceEntry(node, "visit", sanitize_class_name(node.name, node.id), <<>>,
                                  is_root, parent_has_layout, st.root_frame))
    ELSE IF node.type = "VECTOR"
    THEN TraverseVector(node, sanitize_class_name(node.name, node.id), st,
                        TraceEntry(node, "visit", sanitize_class_name(node.name, node.id), <<>>,
                                   is_root, parent_has_layout, st.root_frame))
    ELSE IF node.type = "CANVAS"
    THEN IF FirstFrame(node) = 0 THEN Result(<<>>, <<>>, st)
         ELSE traverse_node(node.children[FirstFrame(node)], TRUE, FALSE, st)
    ELSE IF node.type = "DOCUMENT"
    THEN TraverseDocument(node.children, 1, Result(<<>>, <<>>, st))
    ELSE Result(<<>>, <<>>, st)

----------------------------------------------------------------------------
(* The documents the file endpoint may return.  Node ids are unique within  *)
(* a file.  With short ids ("1:<path>") the first six characters of an id    *)
(* hold all of it; with long ids ("10:200<path>") they are the same for      *)
(* every node.                                                               *)

Digit(k) == DigitSeq[k + 1]
NodeId(long, path) ==
    (IF long THEN <<"1","0",":","2","0","0">> ELSE <<"1",":">>) \o path

Solid(visible) == [type |-> "SOLID", visible |-> visible]
Image(visible) == [type |-> "IMAGE", visible |-> visible]
Stroke(visible) == [visible |-> visible]

IconName == <<"I","c","o","n">>
TextNode(id, visible, font, x, y) ==
    Node(id, "TEXT", <<"H","i">>, visible, Bounds(x, y, 40, 20), "", <<>>, <<Solid(TRUE)>>,
         font, <<"<","b",">">>, <<>>)
VectorNode(id, visible, bounds) ==
    Node(id, "VECTOR", IconName, visible, bounds, "", <<>>, <<Solid(FALSE)>>, "", <<>>, <<>>)
RectNode(id, name, bounds, fills) ==
    Node(id, "RECTANGLE", name, TRUE, bounds, "", <<>>, fills, "", <<>>, <<>>)
FrameNode(id, name, visible, bounds, layoutMode, strokes, children) ==
    Node(id, "FRAME", name, visible, bounds, layoutMode, strokes, <<>>, "", <<>>, children)

ChildKinds == {"text", "hidden_text", "image_rect", "vector", "row"}

\* the child of kind `kind` at position k of the top-level frame of canvas 1; a "row" is
\* an auto-layout frame holding a vector, a rectangle without bounding box, a LINE (a type
\* the walker does not handle) with a vector under it, and a hidden frame with a text and
\* a vector under it
Child(kind, long, k) ==
    LET id == NodeId(long, <<"1", Digit(k)>>)
        sub(j) == NodeId(long, <<"1", Digit(k), Digit(j)>>)
        x == 100 + 50 * k
        y == 250
    IN  CASE kind = "text" -> TextNode(id, TRUE, "Inter", x, y)
          [] kind = "hidden_text" -> TextNode(id, FALSE, "Roboto", x, y)
          [] kind = "image_rect" ->
                RectNode(id, IconName, Bounds(x, y, 100, 100), <<Solid(FALSE), Image(TRUE)>>)
          [] kind = "vector" -> VectorNode(id, TRUE, Bounds(x, y, 24, 24))
          [] kind = "row" ->
                FrameNode(id, <<"R","o","w">>, TRUE, Bounds(x, y, 200, 60), "HORIZONTAL", <<>>,
                          << VectorNode(sub(1), TRUE, Bounds(x + 5, y + 5, 24, 24)),
                             RectNode(sub(2), <<"4","!">>, EmptyBounds, <<Solid(TRUE)>>),
                             Node(sub(3), "LINE", <<"L">>, TRUE, Bounds(x, y, 10, 1), "",
                                  <<Stroke(TRUE)>>, <<>>, "", <<>>,
                                  << VectorNode(sub(4), TRUE, Bounds(x, y, 5, 5)) >>),
                             FrameNode(sub(5), <<"O","f","f">>, FALSE, Bounds(x, y, 200, 60), "",
                                       <<>>,
                                       << TextNode(sub(6), TRUE, "Mono", x, y),
                                          VectorNode(sub(7), TRUE, Bounds(x, y, 24, 24)) >>) >>)

\* the sequences of child kinds of length at most n
RECURSIVE KindSeqs(_)
KindSeqs(n) ==
    IF n = 0 THEN {<<>>}
    ELSE KindSeqs(n - 1) \cup
         {Append(s, k) : s \in {t \in KindSeqs(n - 1) : Len(t) = n - 1}, k \in ChildKinds}

\* canvas 1: a hidden frame, the frame that becomes the root, and a later visible frame
FirstCanvas(long, stroke, layoutMode, kinds) ==
    Node(<<"0",":","1">>, "CANVAS", <<"P","1">>, TRUE, EmptyBounds, "", <<>>, <<>>, "", <<>>,
         << FrameNode(NodeId(long, <<"0">>), <<"F">>, FALSE, Bounds(0, 0, 10, 10), "", <<>>, <<>>),
            FrameNode(NodeId(long, <<"1">>), <<"F">>, TRUE, Bounds(100, 200, 800, 600),
                      layoutMode, <<Stroke(stroke)>>,
                      [k \in 1..Len(kinds) |-> Child(kinds[k], long, k)]),
            FrameNode(NodeId(long, <<"2">>), <<"F">>, TRUE, Bounds(1000, 200, 800, 600),
                      "", <<>>, <<>>) >>)

\* canvas c >= 2: one visible frame holding one small rectangle
LaterCanvas(long, c) ==
    Node(<<"0",":",Digit(c)>>, "CANVAS", <<"P">>, TRUE, EmptyBounds, "", <<>>, <<>>, "", <<>>,
         << FrameNode(NodeId(long, <<Digit(c + 1)>>), <<"G">>, TRUE, Bounds(0, 1000 * c, 800, 600),
                      "", <<>>,
                      << RectNode(NodeId(long, <<Digit(c + 1), "1">>), <<"B","o","x">>,
                                  Bounds(10, 1000 * c + 10, 24, 24), <<Solid(TRUE)>>) >>) >>)

Document(long, stroke, layoutMode, kinds, canvases) ==
    Node(<<"0",":","0">>, "DOCUMENT", <<"D">>, TRUE, EmptyBounds, "", <<>>, <<>>, "", <<>>,
         [c \in 1..canvases |-> IF c = 1 THEN FirstCanvas(long, stroke, layoutMode, kinds)
                                 ELSE LaterCanvas(long, c)])

Documents ==
    {Document(long, stroke, layoutMode, kinds, canvases) :
        long \in BOOLEAN, stroke \in BOOLEAN, layoutMode \in {"", "VERTICAL"},
        kinds \in KindSeqs(MaxChildren), canvases \in 1..MaxCanvases}

\* figma_data before the fetch
NoDocument == Node(<<>>, "NONE", <<>>, FALSE, EmptyBounds, "", <<>>, <<>>, "", <<>>, <<>>)

----------------------------------------------------------------------------
(* main() and convert() *)

\* the four environment variables main() reads; "" is unset or empty
Envs == [FIGMA_TOKEN : {"", "t"}, FIGMA_API_KEY : {"", "t"},
         FIGMA_KEY : {"", "k"}, FIGMA_FILE_KEY : {"", "k"}]

\* Python's `a or b` on strings
Or(a, b) == IF a # "" THEN a ELSE b

IndexHtml == <<"output/index.html">>
AssetFile(class_name) == <<"output/assets/">> \o class_name \o <<".png">>
\* f"url('assets/{filename}')"
AssetUrl(class_name) == <<"url('assets/">> \o class_name \o <<".png')">>

Request(kind, target, ok) == [kind |-> kind, target |-> target, ok |-> ok]

InitCommon ==
    /\ api_key = ""
    /\ file_key = ""
    /\ images = <<>>
    /\ fonts_used = {}
    /\ root_frame = NoneFrame
    /\ figma_data = NoDocument
    /\ html_body = <<>>
    /\ css_rules = <<>>
    /\ image_urls = {}
    /\ loop_i = 0
    /\ requests = <<>>
    /\ files = {}
    /\ raised = ""
    /\ exit_status = -1
    /\ printed = {}
    /\ trace = <<>>
    /\ root_writes = <<>>
    /\ attempts = <<>>

Init ==
    /\ pc = "main"
    /\ InitCommon
    /\ s_name = <<>>
    /\ s_id = <<>>
    /\ s_out = <<"?">>

converter_vars == << images, fonts_used, root_frame, trace, root_writes >>
convert_vars == << figma_data, html_body, css_rules, image_urls, loop_i, attempts >>
harness_vars == << s_name, s_id, s_out >>

\* a mutant of MainStart: the converter is built whatever the credentials
MainStartUnchecked ==
    /\ pc = "main"
    /\ \E env \in Envs :
        /\ api_key' = Or(env.FIGMA_TOKEN, env.FIGMA_API_KEY)
        /\ file_key' = Or(env.FIGMA_KEY, env.FIGMA_FILE_KEY)
    /\ pc' = "fetch_file"
    /\ UNCHANGED << exit_status, printed, requests, files, raised, converter_vars, convert_vars,
                    harness_vars >>

\* main(), lines 553-563: read the credentials; return when one is missing,
\* else build the converter and enter convert()
MainStart ==
    /\ pc = "main"
    /\ \E env \in Envs :
        /\ api_key' = Or(env.FIGMA_TOKEN, env.FIGMA_API_KEY)
        /\ file_key' = Or(env.FIGMA_KEY, env.FIGMA_FILE_KEY)
    /\ IF api_key' = "" \/ file_key' = ""
       THEN pc' = "exited" /\ exit_status' = 0 /\ printed' = {"missing environment variables"}
       ELSE pc' = "fetch_file" /\ UNCHANGED << exit_status, printed >>
    /\ UNCHANGED << requests, files, raised, converter_vars, convert_vars, harness_vars >>

\* convert(), lines 464-470: fetch_file(); a non-2xx answer raises HTTPError, an answer
\* without a 'document' key raises KeyError; both leave the try block (lines 540-550)
FetchFile ==
    /\ pc = "fetch_file"
    /\ \/ /\ requests' = Append(requests, Request("file", file_key, FALSE))
          /\ raised' = "HTTPError"
          /\ printed' = printed \cup {"HTTP Error"}
          /\ pc' = "returned"
          /\ UNCHANGED figma_data
       \/ /\ requests' = Append(requests, Request("file", file_key, TRUE))
          /\ raised' = "KeyError"
          /\ printed' = printed \cup {"Error"}
          /\ pc' = "returned"
          /\ UNCHANGED figma_data
       \/ /\ requests' = Append(requests, Request("file", file_key, TRUE))
          /\ \E doc \in Documents : figma_data' = doc
          /\ pc' = "traverse"
          /\ UNCHANGED << raised, printed >>
    /\ UNCHANGED << api_key, file_key, files, exit_status, converter_vars, html_body, css_rules,
                    image_urls, loop_i, attempts, harness_vars >>

\* convert(), lines 479-482: traverse_node(document) on the converter's fields
Traverse ==
    /\ pc = "traverse"
    /\ \E r \in {traverse_node(figma_data, FALSE, FALSE,
                               [images |-> images, fonts_used |-> fonts_used,
                                root_frame |-> root_frame, trace |-> trace,
                                root_writes |-> root_writes])} :
           /\ html_body' = r.html
           /\ css_rules' = r.css
           /\ images' = r.st.images
           /\ fonts_used' = r.st.fonts_used
           /\ root_frame' = r.st.root_frame
           /\ trace' = r.st.trace
           /\ root_writes' = r.st.root_writes
           /\ pc' = IF r.st.images # <<>> THEN "fetch_images" ELSE "render"
    /\ UNCHANGED << api_key, file_key, figma_data, image_urls, loop_i, attempts, requests,
                    files, raised, printed, exit_status, harness_vars >>

\* the answers of the image endpoint, as the ids that come with a URL: every id of the
\* request, or every id but the first (the endpoint answers null for a node it cannot render)
UrlAnswers(imgs) ==
    {DictKeys(imgs), DictKeys(imgs) \ {imgs[1][1]}}

\* a mutant of FetchImages: a failed export is swallowed and the asset loop runs without URLs
FetchImagesSwallowing ==
    /\ pc = "fetch_images"
    /\ \/ /\ requests' = Append(requests, Request("images", file_key, FALSE))
          /\ image_urls' = {}
       \/ /\ requests' = Append(requests, Request("images", file_key, TRUE))
          /\ \E urls \in UrlAnswers(images) : image_urls' = urls
    /\ pc' = "assets"
    /\ loop_i' = 1
    /\ UNCHANGED << api_key, file_key, figma_data, html_body, css_rules, attempts, files,
                    raised, printed, exit_status, converter_vars, harness_vars >>

\* convert(), line 484: fetch_images(ids); a non-2xx answer raises HTTPError
FetchImages ==
    /\ pc = "fetch_images"
    /\ \/ /\ requests' = Append(requests, Request("images", file_key, FALSE))
          /\ raised' = "HTTPError"
          /\ printed' = printed \cup {"HTTP Error"}
          /\ pc' = "returned"
          /\ UNCHANGED << image_urls, loop_i >>
       \/ /\ requests' = Append(requests, Request("images", file_key, TRUE))
          /\ \E urls \in UrlAnswers(images) : image_urls' = urls
          /\ pc' = "assets"
          /\ loop_i' = 1
          /\ UNCHANGED << raised, printed >>
    /\ UNCHANGED << api_key, file_key, figma_data, html_body, css_rules, attempts, files,
                    exit_status, converter_vars, harness_vars >>

\* css_rules[class_name]['background-image'] = url, when class_name is a key (lines 496-497)
PatchRule(rules, class_name) ==
    IF DictHas(rules, class_name)
    THEN DictSet(rules, class_name,
                 CssSet(DictGet(rules, class_name), "background-image", AssetUrl(class_name)))
    ELSE rules

\* convert(), lines 489-500: one iteration of the asset loop
DownloadAsset ==
    /\ pc = "assets"
    /\ loop_i <= Len(images)
    /\ LET node_id == images[loop_i][1]
           class_name == images[loop_i][2]
       IN  IF node_id \in image_urls
           THEN \E ok \in BOOLEAN :
                   /\ requests' = Append(requests, Request("asset", node_id, ok))
                   /\ attempts' = Append(attempts, [node |-> node_id, class |-> class_name, ok |-> ok])
                   /\ files' = IF ok THEN files \cup {AssetFile(class_name)} ELSE files
                   /\ css_rules' = IF ok THEN PatchRule(css_rules, class_name) ELSE css_rules
                   /\ printed' = IF ok THEN printed ELSE printed \cup {"Failed to download image"}
           ELSE UNCHANGED << requests, attempts, files, css_rules, printed >>
    /\ loop_i' = loop_i + 1
    /\ pc' = IF loop_i = Len(images) THEN "render" ELSE "assets"
    /\ UNCHANGED << api_key, file_key, figma_data, html_body, image_urls, raised, exit_status,
                    converter_vars, harness_vars >>

\* convert(), lines 504-529: generate the stylesheet and write index.html
WriteHtml ==
    /\ pc = "render"
    /\ files' = files \cup {IndexHtml}
    /\ printed' = printed \cup {"Conversion Complete!"}
    /\ pc' = "returned"
    /\ UNCHANGED << api_key, file_key, requests, raised, exit_status, converter_vars,
                    convert_vars, harness_vars >>

\* main(), line 564 and the end of the script: convert() has returned, main() returns
MainReturn ==
    /\ pc = "returned"
    /\ exit_status' = 0
    /\ pc' = "exited"
    /\ UNCHANGED << api_key, file_key, requests, files, raised, printed, converter_vars,
                    convert_vars, harness_vars >>

Next ==
    \/ MainStart
    \/ FetchFile
    \/ Traverse
    \/ FetchImages
    \/ DownloadAsset
    \/ WriteHtml
    \/ MainReturn

Spec == Init /\ [][Next]_vars

----------------------------------------------------------------------------
(* sanitize_class_name on its own: the arguments are drawn in the initial state *)

NameAlphabet == {"a", "B", "7", "_", "-", "!", " "}

RECURSIVE NamesUpTo(_)
NamesUpTo(n) ==
    IF n = 0 THEN {<<>>}
    ELSE NamesUpTo(n - 1) \cup
         {Append(s, c) : s \in {t \in NamesUpTo(n - 1) : Len(t) = n - 1}, c \in NameAlphabet}

HarnessIds == { <<>>, <<"1",":","2">>, <<":",";">>, <<"1","2","3",":","4","5","6","7">>,
                <<"1","2","3",":","4","5","6","8">> }

InitSanitize ==
    /\ pc = "sanitize"
    /\ InitCommon
    /\ s_name \in NamesUpTo(MaxNameLen)
    /\ s_id \in HarnessIds
    /\ s_out = <<"?">>

Sanitize ==
    /\ pc = "sanitize"
    /\ s_out' = sanitize_class_name(s_name, s_id)
    /\ pc' = "sanitized"
    /\ UNCHANGED << api_key, file_key, requests, files, raised, printed, exit_status,
                    converter_vars, convert_vars, s_name, s_id >>

NextSanitize == Sanitize

SpecSanitize == InitSanitize /\ [][NextSanitize]_vars

----------------------------------------------------------------------------
(* One converter, convert() called several times: __init__ runs once, so the *)
(* fields it sets (images, fonts_used, root_frame) are whatever the earlier  *)
(* calls left; the locals of convert() are new in every call.                *)

MaxCalls == 2

\* the documents the file endpoint answers with here: one canvas, short ids, at most one
\* child under the root frame
ReuseDocuments ==
    {Document(FALSE, stroke, "", kinds, 1) : stroke \in BOOLEAN, kinds \in KindSeqs(1)}

\* the calls of convert() so far: each call starts with one request of the file
Calls == Len(SelectSeq(requests, LAMBDA q : q.kind = "file"))

\* FigmaConverter(api_key, file_key) has been built and convert() is entered
InitReuse ==
    /\ pc = "fetch_file"
    /\ api_key = "t"
    /\ file_key = "k"
    /\ images = <<>>
    /\ fonts_used = {}
    /\ root_frame = NoneFrame
    /\ figma_data = NoDocument
    /\ html_body = <<>>
    /\ css_rules = <<>>
    /\ image_urls = {}
    /\ loop_i = 0
    /\ requests = <<>>
    /\ files = {}
    /\ raised = ""
    /\ exit_status = -1
    /\ printed = {}
    /\ trace = <<>>
    /\ root_writes = <<>>
    /\ attempts = <<>>
    /\ s_name = <<>>
    /\ s_id = <<>>
    /\ s_out = <<"?">>

\* convert(), lines 464-470, as FetchFile, the answer drawn from ReuseDocuments
FetchFileReuse ==
    /\ pc = "fetch_file"
    /\ \/ /\ requests' = Append(requests, Request("file", file_key, FALSE))
          /\ raised' = "HTTPError"
          /\ printed' = printed \cup {"HTTP Error"}
          /\ pc' = "returned"
          /\ UNCHANGED figma_data
       \/ /\ requests' = Append(requests, Request("file", file_key, TRUE))
          /\ \E doc \in ReuseDocuments : figma_data' = doc
          /\ pc' = "traverse"
          /\ UNCHANGED << raised, printed >>
    /\ UNCHANGED << api_key, file_key, files, exit_status, converter_vars, html_body, css_rules,
                    image_urls, loop_i, attempts, harness_vars >>

\* convert() has returned and is called again on the same object: its locals (lines
\* 466-484) start anew, the fields of the object are not touched before line 479; the
\* records of the traversal and of the asset loop are those of the current call
ConvertAgain ==
    /\ pc = "returned"
    /\ Calls < MaxCalls
    /\ pc' = "fetch_file"
    /\ figma_data' = NoDocument
    /\ html_body' = <<>>
    /\ css_rules' = <<>>
    /\ image_urls' = {}
    /\ loop_i' = 0
    /\ raised' = ""
    /\ trace' = <<>>
    /\ root_writes' = <<>>
    /\ attempts' = <<>>
    /\ UNCHANGED << api_key, file_key, images, fonts_used, root_frame, requests, files,
                    printed, exit_status, harness_vars >>

NextReuse ==
    \/ FetchFileReuse
    \/ Traverse
    \/ FetchImages
    \/ DownloadAsset
    \/ WriteHtml
    \/ ConvertAgain

SpecReuse == InitReuse /\ [][NextReuse]_vars

----------------------------------------------------------------------------
(* What the properties speak about, read off the fetched document itself.   *)

\* every node of the tree under `node` with: `hidden`, the node or an ancestor has
\* visible = false; `called`, traverse_node is called on it (its ancestors are visible and
\* are a DOCUMENT, a CANVAS whose first visible FRAME it is, or a shape / container);
\* `parent_layout`, its parent declares a layout mode; `inlined`, its container renders
\* it as a <span> instead of calling traverse_node
RECURSIVE Infos(_, _, _, _, _)
Infos(node, hidden, called, parent_layout, inlined) ==
    {[id |-> node.id, type |-> node.type, name |-> node.name, bounds |-> node.bounds,
      fills |-> node.fills, font |-> node.fontFamily, layoutMode |-> node.layoutMode,
      hidden |-> hidden \/ ~node.visible, called |-> called,
      parent_layout |-> parent_layout, inlined |-> inlined]}
    \cup UNION {
        Infos(node.children[i],
              hidden \/ ~node.visible,
              /\ called /\ node.visible
              /\ \/ node.type = "DOCUMENT"
                 \/ node.type = "CANVAS" /\ FirstFrame(node) = i
                 \/ node.type \in ShapeTypes /\ ~is_small_element(node)
                    /\ ~(node.children[i].type = "TEXT"
                         /\ (is_button(node) \/ get_strokes(node) # "")),
              node.layoutMode # "",
              /\ called /\ node.visible /\ node.type \in ShapeTypes
              /\ node.children[i].type = "TEXT"
              /\ (is_button(node) \/ get_strokes(node) # ""))
        : i \in 1..Len(node.children)}

DocInfos == Infos(figma_data, FALSE, TRUE, FALSE, FALSE)

\* the nodes traverse_node visits: called on, and visible
Visited == {n \in DocInfos : n.called /\ ~n.hidden}

\* traverse_node(document) has returned
Traversed ==
    /\ figma_data.type = "DOCUMENT"
    /\ pc \in {"fetch_images", "assets", "render", "returned", "exited"}

TraceEntries == {trace[i] : i \in 1..Len(trace)}
Visits == {e \in TraceEntries : e.kind = "visit"}

----------------------------------------------------------------------------
(* C1: during one traversal started on the DOCUMENT node, root_frame is      *)
(* assigned at most once, by the first FRAME processed with is_root = true,  *)
(* whatever the number of CANVAS children holding a visible FRAME.           *)
RootFrameAssignedOnce ==
    /\ Len(root_writes) <= 1
    /\ Traversed /\ root_writes # <<>> =>
          \E n \in DocInfos : n.id = root_writes[1] /\ root_frame = FrameOf(n.bounds)

(* C2: a node with visible = false, wherever it stands in the tree, gets no  *)
(* markup and no style rule, is not descended into, and adds nothing to      *)
(* fonts_used or images.                                                     *)
InvisibleNodesLeaveNothing ==
    Traversed => \A infos \in {DocInfos} :
        /\ \A e \in TraceEntries : \A n \in infos : n.id = e.node => ~n.hidden
        /\ fonts_used \subseteq {n.font : n \in {m \in infos : ~m.hidden}}
        /\ \A n \in infos : n.hidden => ~DictHas(images, n.id)

(* C3: two distinct nodes that got a style rule have distinct class names,   *)
(* so the rule map holds one rule for each of them.                          *)
ClassNamesAreUnique ==
    Traversed =>
        /\ \A e1, e2 \in TraceEntries : e1.node # e2.node => e1.class # e2.class
        /\ Len(css_rules) = Cardinality({e.node : e \in TraceEntries})

\* the asset loop of convert() has run to its end
AssetLoopDone ==
    /\ Traversed /\ images # <<>> /\ raised = ""
    /\ pc \in {"render", "returned", "exited"}

\* the images entries for which the export answered with a URL, in discovery order
WithUrl ==
    LET HasUrl(e) == e[1] \in image_urls
    IN  SelectSeq(images, HasUrl)

(* C4: whichever downloads fail, every asset with a URL is attempted in      *)
(* discovery order, index.html is written, the rule of every asset that was  *)
(* downloaded has background-image url('assets/<class>.png'), and the rule   *)
(* of every asset whose download failed has no background-image.             *)
AssetFailuresAreIsolated ==
    AssetLoopDone =>
        /\ [i \in 1..Len(attempts) |-> attempts[i].node] = [i \in 1..Len(WithUrl) |-> WithUrl[i][1]]
        /\ pc \in {"returned", "exited"} => IndexHtml \in files
        /\ \A i \in 1..Len(attempts) :
              /\ DictHas(css_rules, attempts[i].class)
              /\ LET rule == DictGet(css_rules, attempts[i].class)
                 IN  IF attempts[i].ok
                     THEN /\ CssHas(rule, "background-image")
                          /\ CssGet(rule, "background-image") = AssetUrl(attempts[i].class)
                     ELSE ~CssHas(rule, "background-image")

(* C5: a non-2xx answer to the file fetch or to the batch image export ends  *)
(* the run: it is the last request made, no asset is downloaded after it,    *)
(* index.html is never written, and after a failed file fetch nothing is     *)
(* traversed.                                                                *)
FetchErrorAborts ==
    \A i \in 1..Len(requests) :
        requests[i].kind \in {"file", "images"} /\ ~requests[i].ok =>
            /\ i = Len(requests)
            /\ pc \in {"returned", "exited"}
            /\ raised = "HTTPError"
            /\ IndexHtml \notin files
            /\ attempts = <<>>
            /\ requests[i].kind = "file" => trace = <<>> /\ css_rules = <<>>

\* the batch image export failed after a traversal that found assets, and the run is over
FetchErrorAbortsWitness ==
    /\ pc = "exited"
    /\ Len(requests) = 2
    /\ requests[2].kind = "images" /\ ~requests[2].ok
    /\ Len(images) >= 2

(* C6: an unrecoverable error (failed file fetch, failed image export, any   *)
(* other exception inside convert()) reaches the caller: convert() does not  *)
(* return normally and the process ends with a non-zero exit status.         *)
ErrorsReachTheCaller ==
    raised # "" =>
        /\ pc # "returned"
        /\ pc = "exited" => exit_status # 0

(* C7: with the API token or the file identifier missing, main() reports     *)
(* the error and ends the run without any network call and without writing   *)
(* any file.                                                                 *)
MissingCredentialsEndTheRun ==
    pc # "main" /\ (api_key = "" \/ file_key = "") =>
        /\ pc = "exited"
        /\ "missing environment variables" \in printed
        /\ requests = <<>>
        /\ files = {}
        /\ figma_data = NoDocument

\* main() has returned with the token present and the file identifier missing
MissingCredentialsWitness ==
    pc = "exited" /\ api_key # "" /\ file_key = ""

(* C8: sanitize_class_name returns, for every name and node id, a non-empty  *)
(* string that starts with a lowercase letter a-z or with "n-".              *)
SanitizeIsTotal ==
    pc = "sanitized" =>
        /\ s_out # <<>>
        /\ \/ s_out[1] \in LowerLetters
           \/ Len(s_out) >= 2 /\ s_out[1] = "n" /\ s_out[2] = "-"

\* the node of `infos` a history entry is about
InfoOf(infos, e) == CHOOSE n \in infos : n.id = e.node

(* C9: a visited non-root node with a bounding box whose parent declares no  *)
(* layout mode gets, once a root frame is recorded, position absolute with   *)
(* left = node.x - root.x and top = node.y - root.y; a visited node whose    *)
(* parent declares a layout mode gets no position, left or top.              *)
PositionFollowsParentLayout ==
    Traversed =>
        \A infos \in {DocInfos} : \A e \in Visits : \A n \in {InfoOf(infos, e)} :
                /\ (~e.is_root /\ n.bounds.has /\ ~n.parent_layout /\ ~e.root.none) =>
                      /\ CssHas(e.css, "position") /\ CssHas(e.css, "left") /\ CssHas(e.css, "top")
                      /\ CssGet(e.css, "position") = "absolute"
                      /\ CssGet(e.css, "left") = n.bounds.x - e.root.b.x
                      /\ CssGet(e.css, "top") = n.bounds.y - e.root.b.y
                /\ n.parent_layout =>
                      ~(CssHas(e.css, "position") \/ CssHas(e.css, "left") \/ CssHas(e.css, "top"))

\* the traversal placed one node 50px / 50px from the root frame and left another,
\* child of a layout container, without a position
PositionWitness ==
    /\ Traversed
    /\ \E e \in Visits :
          /\ ~e.is_root /\ ~InfoOf(DocInfos, e).parent_layout /\ ~e.root.none
          /\ CssHas(e.css, "left") /\ CssGet(e.css, "left") = 50
          /\ CssHas(e.css, "top") /\ CssGet(e.css, "top") = 50
    /\ \E e \in Visits : InfoOf(DocInfos, e).parent_layout /\ InfoOf(DocInfos, e).bounds.has

(* C10: after the traversal every visited VECTOR node is in images exactly   *)
(* once, under its node id and with its own class name, whatever its fills;  *)
(* and every key of images is the id of a visited VECTOR node or of a        *)
(* visited shape / container node with a visible IMAGE fill.                 *)
VectorsAreRegisteredOnce ==
    Traversed => \A visited \in {Visited} :
        /\ \A n \in visited : n.type = "VECTOR" =>
              /\ Cardinality({i \in 1..Len(images) : images[i][1] = n.id}) = 1
              /\ DictGet(images, n.id) = sanitize_class_name(n.name, n.id)
        /\ \A k \in DictKeys(images) : \E n \in visited :
              /\ n.id = k
              /\ \/ n.type = "VECTOR"
                 \/ /\ n.type \in ShapeTypes
                    /\ \E i \in 1..Len(n.fills) : n.fills[i].visible /\ n.fills[i].type = "IMAGE"

\* a visited VECTOR whose only fill is invisible is registered, next to a shape with an
\* image fill, while a VECTOR under a hidden frame is not
VectorsWitness ==
    /\ Traversed
    /\ \E n \in Visited : n.type = "VECTOR" /\ n.fills # <<>> /\ ~n.fills[1].visible
                          /\ DictHas(images, n.id)
    /\ \E n \in Visited : n.type = "RECTANGLE" /\ DictHas(images, n.id)
    /\ \E n \in DocInfos : n.type = "VECTOR" /\ n.hidden

\* the fields of a converter on which nothing has run
FreshState ==
    [images |-> <<>>, fonts_used |-> {}, root_frame |-> NoneFrame, trace |-> <<>>,
     root_writes |-> <<>>]

(* C11: in every call of convert() on one converter, the images, fonts_used  *)
(* and root_frame the call works with after its traversal are those the      *)
(* document fetched in that call gives on its own: nothing of an earlier     *)
(* call's document is in them.                                               *)
ConversionStateIsPerCall ==
    Traversed =>
        \E r \in {traverse_node(figma_data, FALSE, FALSE, FreshState)} :
            /\ images = r.st.images
            /\ fonts_used = r.st.fonts_used
            /\ root_frame = r.st.root_frame

(* C12: every visited node other than a TEXT that declares a layout mode,    *)
(* the root frame included, is stored with display flex and flex-direction   *)
(* row for HORIZONTAL, column for any other mode; so whenever the children   *)
(* of a node are visited with parent_has_layout = true, the node is a flex   *)
(* container.                                                                *)
LayoutNodesAreFlex ==
    Traversed =>
        \A infos \in {DocInfos} : \A e \in Visits : \A n \in {InfoOf(infos, e)} :
            (n.type # "TEXT" /\ n.layoutMode # "") =>
                /\ CssHas(e.css, "display") /\ CssGet(e.css, "display") = "flex"
                /\ CssHas(e.css, "flex-direction")
                /\ CssGet(e.css, "flex-direction") =
                      IF n.layoutMode = "HORIZONTAL" THEN "row" ELSE "column"

\* the class attributes of a fragment: those of its elements and of the elements in them
RECURSIVE ClassesOf(_)
ClassesOf(html) ==
    {html[i].class : i \in 1..Len(html)}
    \cup UNION {ClassesOf(html[i].children) : i \in 1..Len(html)}

\* the nodes of the tree under `node`, `node` included
RECURSIVE Subtrees(_)
Subtrees(node) ==
    {node} \cup UNION {Subtrees(node.children[i]) : i \in 1..Len(node.children)}

(* C13: the fragment and the rules traverse_node returns name the same       *)
(* classes: every class attribute of the fragment is a key of the rules and  *)
(* every key of the rules is a class attribute of the fragment.  This holds  *)
(* for the pair convert() gets for the document, and for the pair            *)
(* traverse_node gives for each node of the fetched document taken as the    *)
(* tree to convert.                                                          *)
MarkupAndRulesAgree ==
    /\ Traversed => ClassesOf(html_body) = DictKeys(css_rules)
    /\ pc = "traverse" =>
          \A node \in Subtrees(figma_data) :
              \E r \in {traverse_node(node, FALSE, FALSE, FreshState)} :
                  ClassesOf(r.html) = DictKeys(r.css)

\* the traversal returned a container with a <span> for its text child and a vector next
\* to it: three classes at least, each with its rule
MarkupAndRulesWitness ==
    /\ Traversed
    /\ \E e \in TraceEntries : e.kind = "inline" /\ e.class \in ClassesOf(html_body)
    /\ \E e \in Visits : e.type = "VECTOR" /\ e.class \in ClassesOf(html_body)
    /\ Cardinality(ClassesOf(html_body)) >= 3
    /\ ClassesOf(html_body) = DictKeys(css_rules)

====
